---- MODULE Spec2Model ----
(***************************************************************************)
(* Filter coordination for a tabular grid (js/filters.js) with the text    *)
(* input filter (js/filter/input) and a dropdown-style filter.             *)
(*                                                                         *)
(* Texts (queries, cell contents, URLs) are sequences of one-character     *)
(* strings, so that concatenation and containment are computed.            *)
(* Column indices are 0-based as in the code; TLA+ sequences are 1-based,  *)
(* so column c is element c+1 of aoColumns and of a row.                   *)
(***************************************************************************)
EXTENDS Integers, Sequences, FiniteSets, TLC

VARIABLES
    phase,      \* "declared" | "constructed" | "failed" | "loaded" | "ready"
    aoColumns,  \* settings.aoColumns: the declared columns
    filters,    \* this.filters: the ordered filter collection
    this_url,   \* this.url: the ajax URL captured by the constructor
    search,     \* grid: per-column search state (predicate, regex, smart)
    ajaxUrl,    \* grid: the remote fetch URL
    rows,       \* grid: the loaded rows (rendered cell texts)
    header,     \* DOM: the filter rows appended to the table header
    initBound,  \* grid: number of 'init' subscriptions of the coordinator
    xhrBound,   \* grid: number of 'xhr' subscriptions of the coordinator
    pending,    \* grid: number of one-shot 'preDraw' handlers waiting
    reloads,    \* grid: fetches requested and not yet completed
    calls       \* the calls made by the latest handler, in order

vars == <<phase, aoColumns, filters, this_url, search, ajaxUrl, rows, header,
          initBound, xhrBound, pending, reloads, calls>>

----------------------------------------------------------------------------
(* Bounds *)

\* Cap on the one-shot preDraw handlers that may wait at the same time.
MaxPending == 2

\* Cap on the fetches in flight at the same time.
MaxReloads == 1

----------------------------------------------------------------------------
(* Texts *)

NoText == <<>>
TA == <<"a">>
TB == <<"b">>
TAB == <<"a", "b">>

\* What a user may type into a text control.
Texts == {NoText, TA, TB}

\* The URL the grid is configured with.
BaseUrl == <<"/", "d">>

\* Decimal digit of a column index, for the serialized server query.
ColDigit(c) == <<"0", "1", "2", "3">>[c + 1]

RECURSIVE Join(_, _)
\* Array.prototype.join: the elements separated by sep.
Join(parts, sep) ==
    IF parts = <<>> THEN NoText
    ELSE IF Len(parts) = 1 THEN parts[1]
    ELSE parts[1] \o sep \o Join(Tail(parts), sep)

----------------------------------------------------------------------------
(* The grid: rows, column search, distinct values *)

\* q occurs in cell as a contiguous part; the empty query matches every cell.
Contains(q, cell) ==
    \E i \in 0..(Len(cell) - Len(q)) : SubSeq(cell, i + 1, i + Len(q)) = q

\* The state of a column search nobody has written.
NoSearch == [q |-> NoText, regex |-> FALSE, smart |-> TRUE]

\* A row is displayed when every column's search accepts its cell.
RowPasses(row, srch) ==
    \A c \in DOMAIN srch : Contains(srch[c].q, row[c + 1])

RECURSIVE Unique(_)
\* unique(): duplicates removed, first occurrences kept in order.
Unique(s) ==
    IF s = <<>> THEN <<>>
    ELSE LET rest == Unique(SubSeq(s, 1, Len(s) - 1))
             last == s[Len(s)]
         IN  IF \E i \in DOMAIN rest : rest[i] = last THEN rest
             ELSE Append(rest, last)

\* Cells of column col over the given rows.
ColumnCells(rs, col) == [i \in 1..Len(rs) |-> rs[i][col + 1]]

\* getColumnData: the distinct rendered values of all rows.
getColumnData(rs, col) == Unique(ColumnCells(rs, col))

\* The search of the column itself left out of the row selection.
getFilteredColumnData_others(rs, srch, col) ==
    Unique(ColumnCells(
        SelectSeq(rs, LAMBDA r : RowPasses(r, [srch EXCEPT ![col] = NoSearch])),
        col))

\* getFilteredColumnData: the distinct rendered values of the rows that
\* pass the searches applied to the grid ({search: 'applied'}).
getFilteredColumnData(rs, srch, col) ==
    Unique(ColumnCells(SelectSeq(rs, LAMBDA r : RowPasses(r, srch)), col))

----------------------------------------------------------------------------
(* Column declarations and the Filter Registry *)

\* A column's filter descriptor: {type, ...options}. serverSide and initial
\* are type-specific options merged into the filter; className is the
\* optional element class; faulty marks a filter whose refresh() throws;
\* column is an option of that name, if the descriptor has one (a sequence
\* of length 0 or 1).
Descriptor(type, serverSide, initial, className) ==
    [type |-> type, serverSide |-> serverSide, initial |-> initial,
     className |-> className, faulty |-> FALSE, column |-> <<>>]

\* A column declaration: an optional descriptor (a sequence of length 0 or
\* 1) and the column's visibility.
Column(filter, bVisible) == [filter |-> filter, bVisible |-> bVisible]

Plain(bVisible) == Column(<<>>, bVisible)
InputCol(bVisible) ==
    Column(<<Descriptor("input", FALSE, NoText, FALSE)>>, bVisible)
SelectCol(initial, bVisible) ==
    Column(<<Descriptor("select", FALSE, initial, TRUE)>>, bVisible)
ServerCol(type, bVisible) ==
    Column(<<Descriptor(type, TRUE, NoText, FALSE)>>, bVisible)
FaultyCol ==
    Column(<<[Descriptor("select", FALSE, NoText, FALSE)
                 EXCEPT !.faulty = TRUE]>>, TRUE)
OverrideCol(c) ==
    Column(<<[Descriptor("input", FALSE, NoText, FALSE)
                 EXCEPT !.column = <<c>>]>>, TRUE)
UnknownCol == Column(<<Descriptor("range", FALSE, NoText, FALSE)>>, TRUE)

\* Filters.prototype.builders: the registered type names.
builders == {"input", "select"}

\* The column configurations the model is checked for.
ColumnConfigs ==
    { <<Plain(TRUE), Plain(FALSE)>>,
      <<InputCol(TRUE), SelectCol(NoText, TRUE), ServerCol("select", TRUE)>>,
      <<SelectCol(TA, TRUE), InputCol(TRUE)>>,
      <<Plain(FALSE), SelectCol(NoText, TRUE), SelectCol(TB, TRUE)>>,
      <<ServerCol("input", TRUE), SelectCol(NoText, FALSE),
        ServerCol("select", TRUE)>>,
      <<InputCol(TRUE), Plain(FALSE)>>,
      <<InputCol(TRUE), Plain(TRUE), UnknownCol>>,
      <<UnknownCol, InputCol(TRUE)>> }

\* Column configurations with a filter whose refresh() throws.
FaultyConfigs ==
    { <<InputCol(TRUE), FaultyCol, SelectCol(NoText, TRUE)>>,
      <<SelectCol(TA, TRUE), FaultyCol, ServerCol("select", TRUE)>>,
      <<FaultyCol, Plain(FALSE), InputCol(TRUE)>> }

\* Column configurations with a descriptor that has an option 'column'.
OverrideConfigs ==
    { <<InputCol(TRUE), OverrideCol(0), SelectCol(NoText, TRUE)>>,
      <<InputCol(TRUE), SelectCol(NoText, TRUE), ServerCol("select", TRUE)>> }

\* Column configurations with text input filters of both kinds.
ResetConfigs ==
    { <<InputCol(TRUE), ServerCol("input", TRUE), SelectCol(NoText, TRUE)>>,
      <<SelectCol(TA, TRUE), InputCol(TRUE)>> }

\* The data sets a fetch may deliver; a row has a cell per column.
Datasets ==
    { << <<TA, TA, TA>>, <<TA, TB, TA>>, <<TAB, TB, TB>> >>,
      << <<TB, TA, TB>>, <<TB, TAB, TA>> >> }

----------------------------------------------------------------------------
(* The text input filter (InputFilter) *)

\* builders.input: the filter object made of InputFilter and the settings.
builders_input(settings) ==
    [type |-> settings.type, column |-> settings.column,
     renderColumn |-> settings.renderColumn,
     serverSide |-> settings.serverSide, initial |-> settings.initial,
     className |-> settings.className, faulty |-> settings.faulty,
     value |-> NoText, options |-> <<>>, sink |-> "none",
     initialized |-> FALSE, rendered |-> FALSE, container |-> -1]

InputFilter_getInitialQuery(f) == NoText

InputFilter_init(f) ==
    [f EXCEPT !.value = InputFilter_getInitialQuery(f), !.initialized = TRUE]

InputFilter_populate(f, data) == f

InputFilter_update(f, data) == f

InputFilter_noSelectionQuery(f) == NoText

InputFilter_isRegexMatch(f) == TRUE

InputFilter_hasValue(f) == f.value /= NoText

InputFilter_selectedQuery(f) == f.value

\* The text left as it is.
InputFilter_reset_keeps(f) == f

InputFilter_reset(f) == [f EXCEPT !.value = NoText]

----------------------------------------------------------------------------
(* The dropdown filter: a variant of the capability contract *)

builders_select(settings) == builders_input(settings)

SelectFilter_getInitialQuery(f) == f.initial

SelectFilter_init(f) ==
    [f EXCEPT !.value = SelectFilter_getInitialQuery(f), !.initialized = TRUE]

\* The option list becomes the unfiltered values of the column.
SelectFilter_populate(f, data) == [f EXCEPT !.options = data]

\* The option list becomes the given values; the selected value is kept
\* when it is still one of them and dropped otherwise.
SelectFilter_update(f, data) ==
    [f EXCEPT !.options = data,
              !.value = IF \E k \in DOMAIN data : data[k] = f.value
                        THEN f.value ELSE NoText]

SelectFilter_isRegexMatch(f) == FALSE

SelectFilter_hasValue(f) == f.value /= NoText

----------------------------------------------------------------------------
(* The capability contract, as the coordinator calls it *)

build(settings) ==
    IF settings.type = "input" THEN builders_input(settings)
    ELSE builders_select(settings)

init(f) ==
    IF f.type = "input" THEN InputFilter_init(f) ELSE SelectFilter_init(f)

hasValue(f) ==
    IF f.type = "input" THEN InputFilter_hasValue(f)
    ELSE SelectFilter_hasValue(f)

isRegexMatch(f) ==
    IF f.type = "input" THEN InputFilter_isRegexMatch(f)
    ELSE SelectFilter_isRegexMatch(f)

getInitialQuery(f) ==
    IF f.type = "input" THEN InputFilter_getInitialQuery(f)
    ELSE SelectFilter_getInitialQuery(f)

\* query(): the predicate for the current value.
getQuery(f) ==
    IF f.type = "input"
    THEN IF InputFilter_hasValue(f) THEN InputFilter_selectedQuery(f)
         ELSE InputFilter_noSelectionQuery(f)
    ELSE IF SelectFilter_hasValue(f) THEN f.value ELSE NoText

isServerSide(f) == f.serverSide

\* serverQuery(): the serialized fragment "<column>=<value>".
getServerQuery(f) == <<ColDigit(f.column), "=">> \o f.value

register(f, sink) == [f EXCEPT !.sink = sink]

render(f, container, data) ==
    LET g == IF f.type = "input" THEN InputFilter_populate(f, data)
             ELSE SelectFilter_populate(f, data)
    IN  [g EXCEPT !.rendered = TRUE, !.container = container]

refresh(f, data) ==
    IF f.type = "input" THEN InputFilter_update(f, data)
    ELSE SelectFilter_update(f, data)

\* The values a user can give the control of filter f.
UserValues(f) ==
    IF f.type = "input" THEN Texts
    ELSE {NoText} \cup {f.options[k] : k \in DOMAIN f.options}

----------------------------------------------------------------------------
(* The coordinator (Filters). Its operations transform a world w: the      *)
(* coordinator's fields, the grid's state and the log of calls.            *)

\* A logged call: what was called, at which depth of nested redraws, on
\* which column, with which arguments. srch is the grid's search state at
\* the time the values handed to refresh() were read.
NoCall ==
    [op |-> "", depth |-> 0, col |-> -1, ev |-> "", q |-> NoText,
     regex |-> FALSE, data |-> <<>>, srch |-> <<>>]

Log(w, c) == [w EXCEPT !.calls = Append(@, c)]

\* Positions of the collection, in collection order.
Indices(fs) == [k \in 1..Len(fs) |-> k]

\* Constructor, lines 18-32: the filters of the declared columns, in
\* column order, each with its column and its render column; $.extend
\* copies the descriptor's options over {column, renderColumn}.
RECURSIVE BuildFilters(_, _, _)
BuildFilters(cols, col, renderCol) ==
    IF col >= Len(cols) THEN <<>>
    ELSE LET param == cols[col + 1]
             next == IF param.bVisible THEN renderCol + 1 ELSE renderCol
             rest == BuildFilters(cols, col + 1, next)
         IN  IF param.filter /= <<>>
             THEN <<build([type |-> param.filter[1].type,
                           serverSide |-> param.filter[1].serverSide,
                           initial |-> param.filter[1].initial,
                           className |-> param.filter[1].className,
                           faulty |-> param.filter[1].faulty,
                           column |-> IF param.filter[1].column /= <<>>
                                      THEN param.filter[1].column[1]
                                      ELSE col,
                           renderColumn |-> renderCol])>>
                  \o rest
             ELSE rest

\* An unregistered type passed over instead of failing.
BuildersKnown_unchecked(cols) == TRUE

\* builders[param.filter.type] is a function for every declared filter.
BuildersKnown(cols) ==
    \A k \in DOMAIN cols :
        cols[k].filter /= <<>> => cols[k].filter[1].type \in builders

\* The query always applied as a literal text.
applyFilter_literal(w, i, d) ==
    LET f == w.filters[i]
        s == [q |-> getQuery(f), regex |-> FALSE, smart |-> FALSE]
    IN  Log([w EXCEPT !.search[f.column] = s],
            [NoCall EXCEPT !.op = "search", !.depth = d, !.col = f.column,
                           !.q = s.q, !.regex = s.regex])

\* applyFilter: the filter's query becomes the search of its column.
applyFilter(w, i, d) ==
    LET f == w.filters[i]
        s == [q |-> getQuery(f), regex |-> isRegexMatch(f), smart |-> FALSE]
    IN  Log([w EXCEPT !.search[f.column] = s],
            [NoCall EXCEPT !.op = "search", !.depth = d, !.col = f.column,
                           !.q = s.q, !.regex = s.regex])

\* applyInitialFilter: the filter's initial query becomes the search of
\* its column.
applyInitialFilter(w, i) ==
    LET f == w.filters[i]
        s == [q |-> getInitialQuery(f), regex |-> isRegexMatch(f),
              smart |-> FALSE]
    IN  Log([w EXCEPT !.search[f.column] = s],
            [NoCall EXCEPT !.op = "search", !.col = f.column,
                           !.q = s.q, !.regex = s.regex])

\* An exception is on its way out of the running handler: the last call
\* made has thrown.
thrown(w) == w.calls /= <<>> /\ w.calls[Len(w.calls)].op = "throw"

\* filter.refresh(data): the filter is updated, or the call throws.
callRefresh(w, i, d, data) ==
    LET f == w.filters[i]
        w1 == Log(w, [NoCall EXCEPT !.op = "refresh", !.depth = d,
                                    !.col = f.column, !.data = data,
                                    !.srch = w.search])
    IN  IF f.faulty
        THEN Log(w1, [NoCall EXCEPT !.op = "throw", !.depth = d,
                                    !.col = f.column])
        ELSE [w1 EXCEPT !.filters[i] = refresh(f, data)]

\* The values read with the applied searches, as the client cascade does.
refreshFiltersStep_filtered(w, i, d) ==
    LET f == w.filters[i]
        data == getFilteredColumnData(w.rows, w.search, f.column)
        w1 == callRefresh(w, i, d, data)
    IN  IF thrown(w1) THEN w1 ELSE applyFilter(w1, i, d)

\* The body of the loop of refreshFilters (lines 277-280) for filter i.
refreshFiltersStep(w, i, d) ==
    LET f == w.filters[i]
        data == getColumnData(w.rows, f.column)
        w1 == callRefresh(w, i, d, data)
    IN  IF thrown(w1) THEN w1 ELSE applyFilter(w1, i, d)

\* The body of the loop of onClientFilterChange (lines 175-178).
clientRefreshStep(w, i, d) ==
    LET f == w.filters[i]
        data == getFilteredColumnData(w.rows, w.search, f.column)
        w1 == callRefresh(w, i, d, data)
    IN  IF thrown(w1) THEN w1 ELSE applyFilter(w1, i, d)

RECURSIVE refreshFiltersEach_reversed(_, _, _)
\* The filters processed from the last to the first.
refreshFiltersEach_reversed(w, idx, d) ==
    IF idx = <<>> THEN w
    ELSE LET w1 == refreshFiltersEach_reversed(w, Tail(idx), d)
         IN  IF thrown(w1) THEN w1 ELSE refreshFiltersStep(w1, Head(idx), d)

RECURSIVE refreshFiltersEach(_, _, _)
\* forEach of refreshFilters over the positions idx.
refreshFiltersEach(w, idx, d) ==
    IF idx = <<>> \/ thrown(w) THEN w
    ELSE refreshFiltersEach(refreshFiltersStep(w, Head(idx), d), Tail(idx), d)

RECURSIVE clientRefreshEach_swallowing(_, _, _)
\* A failed refresh() passed over: the loop goes on with the next filter.
clientRefreshEach_swallowing(w, idx, d) ==
    IF idx = <<>> THEN w
    ELSE clientRefreshEach_swallowing(clientRefreshStep(w, Head(idx), d),
                                      Tail(idx), d)

RECURSIVE clientRefreshEach(_, _, _)
\* forEach of onClientFilterChange over the positions idx; an exception
\* leaves the loop.
clientRefreshEach(w, idx, d) ==
    IF idx = <<>> \/ thrown(w) THEN w
    ELSE clientRefreshEach(clientRefreshStep(w, Head(idx), d), Tail(idx), d)

RECURSIVE refreshFilters(_, _)

RECURSIVE RunPreDraw(_, _, _)
\* The n handlers of a dispatched preDraw event, run one after the other;
\* an exception of a handler leaves the dispatch.
RunPreDraw(w, n, d) ==
    IF n = 0 \/ thrown(w) THEN w ELSE RunPreDraw(refreshFilters(w, d), n - 1, d)

\* The grid redraws: preDraw is dispatched to the one-shot handlers that
\* wait, which are all removed when the first of them is invoked.
GridDraw(w, d) == RunPreDraw([w EXCEPT !.pending = 0], w.pending, d + 1)

\* drawTable: tableAPI.draw().
drawTable(w, d) ==
    GridDraw(Log(w, [NoCall EXCEPT !.op = "draw", !.depth = d]), d)

\* refreshFilters (refreshAll): every filter in collection order, then
\* one redraw.
refreshFilters(w, d) ==
    LET w0 == Log(w, [NoCall EXCEPT !.op = "refreshFilters", !.depth = d])
        w1 == refreshFiltersEach(w0, Indices(w.filters), d)
    IN  IF thrown(w1) THEN w1 ELSE drawTable(w1, d)

\* The exclusion of the changed filter forgotten.
filtersToRefresh_all(fs, i) == Indices(fs)

\* Lines 167-173: the positions of the filters to refresh after filter i
\* changed.
filtersToRefresh(fs, i) ==
    IF hasValue(fs[i])
    THEN SelectSeq(Indices(fs), LAMBDA j : fs[j].column /= fs[i].column)
    ELSE Indices(fs)

\* The changed filter's predicate written after the cascade.
onClientFilterChange_applyLast(w, i) ==
    LET w1 == clientRefreshEach(w, filtersToRefresh(w.filters, i), 0)
        w2 == IF thrown(w1) THEN w1 ELSE applyFilter(w1, i, 0)
    IN  IF thrown(w2) THEN w2 ELSE drawTable(w2, 0)

\* The change handler arming an interception of the next redraw.
onClientFilterChange_arms(w, i) ==
    LET w1 == applyFilter(w, i, 0)
        w2 == clientRefreshEach(w1, filtersToRefresh(w.filters, i), 0)
        w3 == IF thrown(w2) THEN w2 ELSE drawTable(w2, 0)
    IN  [w3 EXCEPT !.pending = @ + 1]

\* onClientFilterChange for the filter at position i.
onClientFilterChange(w, i) ==
    LET w1 == applyFilter(w, i, 0)
        w2 == clientRefreshEach(w1, filtersToRefresh(w.filters, i), 0)
    IN  IF thrown(w2) THEN w2 ELSE drawTable(w2, 0)

\* Lines 191-195: the server queries of the server-side filters, joined.
serverQuery(fs) ==
    LET ss == SelectSeq(fs, isServerSide)
    IN  Join([k \in 1..Len(ss) |-> getServerQuery(ss[k])], <<"&">>)

\* The query appended to the grid's current URL instead of the base.
serverUrl_fromCurrent(w) == w.ajaxUrl \o <<"?">> \o serverQuery(w.filters)

\* Line 197: the URL handed to ajax.url().
serverUrl(w) == w.this_url \o <<"?">> \o serverQuery(w.filters)

\* onServerFilterChange: the URL is rewritten and the data reloaded.
onServerFilterChange(w) ==
    LET u == serverUrl(w)
        w1 == Log([w EXCEPT !.ajaxUrl = u],
                  [NoCall EXCEPT !.op = "url", !.q = u])
    IN  Log([w1 EXCEPT !.reloads = @ + 1], [NoCall EXCEPT !.op = "reload"])

\* setupHeaderRow: a row with one cell per visible column is appended.
setupHeaderRow(w) ==
    LET visible == SelectSeq(w.aoColumns, LAMBDA p : p.bVisible)
    IN  Log([w EXCEPT !.header = Append(@, [k \in 1..Len(visible) |-> <<>>])],
            [NoCall EXCEPT !.op = "headerRow", !.col = Len(visible)])

\* registerAjaxListener: the 'xhr' subscription.
registerAjaxListener(w) ==
    Log([w EXCEPT !.xhrBound = @ + 1], [NoCall EXCEPT !.op = "on", !.ev = "xhr"])

\* The 'xhr' listener (lines 76-78): one more one-shot preDraw handler.
onXhr(w) ==
    Log([w EXCEPT !.pending = @ + 1],
        [NoCall EXCEPT !.op = "one", !.ev = "preDraw"])

\* Number of '.fond-header' cells in the table header.
HeaderCells(h) == IF h = <<>> THEN 0 ELSE Len(h[1])

\* The two branches exchanged.
changeSink_swapped(f) == IF isServerSide(f) THEN "client" ELSE "server"

\* Lines 256-260: the handler registered as the filter's change sink.
changeSink(f) == IF isServerSide(f) THEN "server" ELSE "client"

\* renderFilter: the change sink is registered, then the filter renders
\* itself into the header cell numbered renderColumn, if there is one.
renderFilter(w, i) ==
    LET f == w.filters[i]
        sink == changeSink(f)
        cell == IF f.renderColumn < HeaderCells(w.header)
                THEN f.renderColumn ELSE -1
        data == getColumnData(w.rows, f.column)
        g == render(register(f, sink), cell, data)
        h == IF cell >= 0
             THEN [w.header EXCEPT ![1][cell + 1] = Append(@, f.column)]
             ELSE w.header
        w1 == Log(w, [NoCall EXCEPT !.op = "register", !.col = f.column,
                                    !.ev = sink])
        w2 == Log([w1 EXCEPT !.filters[i] = g, !.header = h],
                  [NoCall EXCEPT !.op = "render", !.col = f.column,
                                 !.data = data])
    IN  IF f.className
        THEN Log(w2, [NoCall EXCEPT !.op = "addClass", !.col = f.column])
        ELSE w2

RECURSIVE renderFiltersEach(_, _)
renderFiltersEach(w, idx) ==
    IF idx = <<>> THEN w
    ELSE renderFiltersEach(renderFilter(w, Head(idx)), Tail(idx))

\* renderFilters: every filter, in collection order.
renderFilters(w) == renderFiltersEach(w, Indices(w.filters))

\* The filters rendered before the ajax listener is registered.
onDataTableInit_renderFirst(w) ==
    registerAjaxListener(renderFilters(setupHeaderRow(w)))

\* onDataTableInit: header row, ajax listener, rendering.
onDataTableInit(w) == renderFilters(registerAjaxListener(setupHeaderRow(w)))

RECURSIVE initEach(_, _)
\* Lines 36-38: init() of every filter.
initEach(w, idx) ==
    IF idx = <<>> THEN w
    ELSE LET i == Head(idx)
             w1 == Log([w EXCEPT !.filters[i] = init(@)],
                       [NoCall EXCEPT !.op = "init",
                                      !.col = w.filters[i].column])
         IN  initEach(w1, Tail(idx))

RECURSIVE applyInitialEach(_, _)
\* Line 39: applyInitialFilter of every filter.
applyInitialEach(w, idx) ==
    IF idx = <<>> THEN w
    ELSE applyInitialEach(applyInitialFilter(w, Head(idx)), Tail(idx))

\* Line 39 left out: no initial query is applied.
FiltersConstructor_noInitialQuery(w) ==
    LET w0 == [w EXCEPT !.this_url = w.ajaxUrl]
        fs == BuildFilters(w.aoColumns, 0, 0)
    IN  IF Len(fs) > 0
        THEN LET w1 == initEach([w0 EXCEPT !.filters = fs], Indices(fs))
             IN  Log([w1 EXCEPT !.initBound = @ + 1],
                     [NoCall EXCEPT !.op = "on", !.ev = "init"])
        ELSE w0

\* The test of line 34 left out: 'init' is subscribed to in any case.
FiltersConstructor_alwaysBinds(w) ==
    LET w0 == [w EXCEPT !.this_url = w.ajaxUrl]
        fs == BuildFilters(w.aoColumns, 0, 0)
        w1 == initEach([w0 EXCEPT !.filters = fs], Indices(fs))
        w2 == applyInitialEach(w1, Indices(fs))
    IN  Log([w2 EXCEPT !.initBound = @ + 1],
            [NoCall EXCEPT !.op = "on", !.ev = "init"])

\* 'init' subscribed to twice.
FiltersConstructor_bindsTwice(w) ==
    LET w0 == [w EXCEPT !.this_url = w.ajaxUrl]
        fs == BuildFilters(w.aoColumns, 0, 0)
    IN  IF Len(fs) > 0
        THEN LET w1 == initEach([w0 EXCEPT !.filters = fs], Indices(fs))
                 w2 == applyInitialEach(w1, Indices(fs))
             IN  Log([w2 EXCEPT !.initBound = @ + 2],
                     [NoCall EXCEPT !.op = "on", !.ev = "init"])
        ELSE w0

\* The constructor, for columns whose filter types are all registered.
FiltersConstructor(w) ==
    LET w0 == [w EXCEPT !.this_url = w.ajaxUrl]
        fs == BuildFilters(w.aoColumns, 0, 0)
    IN  IF Len(fs) > 0
        THEN LET w1 == initEach([w0 EXCEPT !.filters = fs], Indices(fs))
                 w2 == applyInitialEach(w1, Indices(fs))
             IN  Log([w2 EXCEPT !.initBound = @ + 1],
                     [NoCall EXCEPT !.op = "on", !.ev = "init"])
        ELSE w0

RECURSIVE RunInit(_, _)
\* The n subscriptions to 'init', invoked one after the other.
RunInit(w, n) == IF n = 0 THEN w ELSE RunInit(onDataTableInit(w), n - 1)

----------------------------------------------------------------------------
(* The state machine *)

World ==
    [aoColumns |-> aoColumns, filters |-> filters, this_url |-> this_url,
     search |-> search, ajaxUrl |-> ajaxUrl, rows |-> rows,
     header |-> header, initBound |-> initBound, xhrBound |-> xhrBound,
     pending |-> pending, reloads |-> reloads, calls |-> <<>>]

\* The variables take the values of world w.
Becomes(w) ==
    /\ filters' = w.filters
    /\ this_url' = w.this_url
    /\ search' = w.search
    /\ ajaxUrl' = w.ajaxUrl
    /\ header' = w.header
    /\ initBound' = w.initBound
    /\ xhrBound' = w.xhrBound
    /\ pending' = w.pending
    /\ reloads' = w.reloads
    /\ calls' = w.calls

\* The grid has declared its columns; nothing is loaded or rendered.
Init ==
    /\ phase = "declared"
    /\ aoColumns \in ColumnConfigs
    /\ filters = <<>>
    /\ this_url = NoText
    /\ search = [c \in 0..(Len(aoColumns) - 1) |-> NoSearch]
    /\ ajaxUrl = BaseUrl
    /\ rows = <<>>
    /\ header = <<>>
    /\ initBound = 0
    /\ xhrBound = 0
    /\ pending = 0
    /\ reloads = 0
    /\ calls = <<>>

\* The same, for the configurations with a filter whose refresh() throws.
InitFaulty ==
    /\ phase = "declared"
    /\ aoColumns \in FaultyConfigs
    /\ filters = <<>>
    /\ this_url = NoText
    /\ search = [c \in 0..(Len(aoColumns) - 1) |-> NoSearch]
    /\ ajaxUrl = BaseUrl
    /\ rows = <<>>
    /\ header = <<>>
    /\ initBound = 0
    /\ xhrBound = 0
    /\ pending = 0
    /\ reloads = 0
    /\ calls = <<>>

\* The same, for the configurations with an option 'column'.
InitOverride ==
    /\ phase = "declared"
    /\ aoColumns \in OverrideConfigs
    /\ filters = <<>>
    /\ this_url = NoText
    /\ search = [c \in 0..(Len(aoColumns) - 1) |-> NoSearch]
    /\ ajaxUrl = BaseUrl
    /\ rows = <<>>
    /\ header = <<>>
    /\ initBound = 0
    /\ xhrBound = 0
    /\ pending = 0
    /\ reloads = 0
    /\ calls = <<>>

\* The same, for the configurations with text input filters.
InitReset ==
    /\ phase = "declared"
    /\ aoColumns \in ResetConfigs
    /\ filters = <<>>
    /\ this_url = NoText
    /\ search = [c \in 0..(Len(aoColumns) - 1) |-> NoSearch]
    /\ ajaxUrl = BaseUrl
    /\ rows = <<>>
    /\ header = <<>>
    /\ initBound = 0
    /\ xhrBound = 0
    /\ pending = 0
    /\ reloads = 0
    /\ calls = <<>>

\* 'preInit.dt' (lines 288-290): new Filters(settings). An unregistered
\* type makes the constructor throw in its first loop.
Construct ==
    /\ phase = "declared"
    /\ IF BuildersKnown(aoColumns)
       THEN /\ phase' = "constructed"
            /\ Becomes(FiltersConstructor(World))
       ELSE /\ phase' = "failed"
            /\ Becomes([World EXCEPT !.this_url = ajaxUrl])
    /\ UNCHANGED <<aoColumns, rows>>

\* The grid's first data fetch and first render.
FirstLoad ==
    /\ phase = "constructed"
    /\ phase' = "loaded"
    /\ rows' \in Datasets
    /\ calls' = <<>>
    /\ UNCHANGED <<aoColumns, filters, this_url, search, ajaxUrl, header,
                   initBound, xhrBound, pending, reloads>>

\* The grid's one-time initialization event.
GridInit ==
    /\ phase = "loaded"
    /\ phase' = "ready"
    /\ Becomes(RunInit(World, initBound))
    /\ UNCHANGED <<aoColumns, rows>>

\* The user gives client-side filter i the value v; the filter notifies.
ClientFilterChange(i, v) ==
    /\ phase = "ready"
    /\ filters[i].sink = "client"
    /\ LET w == [World EXCEPT !.filters[i].value = v]
           w0 == Log(w, [NoCall EXCEPT !.op = "change",
                            !.col = filters[i].column, !.q = v,
                            !.regex = hasValue(w.filters[i])])
       IN  Becomes(onClientFilterChange(w0, i))
    /\ UNCHANGED <<phase, aoColumns, rows>>

\* The user gives server-side filter i the value v; the filter notifies.
ServerFilterChange(i, v) ==
    /\ phase = "ready"
    /\ filters[i].sink = "server"
    /\ reloads < MaxReloads
    /\ LET w == [World EXCEPT !.filters[i].value = v]
           w0 == Log(w, [NoCall EXCEPT !.op = "change",
                            !.col = filters[i].column, !.q = v,
                            !.regex = hasValue(w.filters[i])])
       IN  Becomes(onServerFilterChange(w0))
    /\ UNCHANGED <<phase, aoColumns, rows>>

\* A reload the coordinator did not ask for (paging, the application).
GridReload ==
    /\ phase = "ready"
    /\ reloads < MaxReloads
    /\ reloads' = reloads + 1
    /\ calls' = <<>>
    /\ UNCHANGED <<phase, aoColumns, filters, this_url, search, ajaxUrl,
                   rows, header, initBound, xhrBound, pending>>

\* A fetch completes: the rows are replaced and 'xhr' is fired.
Xhr ==
    /\ phase = "ready"
    /\ reloads > 0
    /\ pending < MaxPending
    /\ rows' \in Datasets
    /\ LET w == [World EXCEPT !.reloads = @ - 1]
       IN  Becomes(IF xhrBound > 0 THEN onXhr(w) ELSE w)
    /\ UNCHANGED <<phase, aoColumns>>

\* The grid redraws (after a fetch, a sort, a page change).
Draw ==
    /\ phase = "ready"
    /\ Becomes(GridDraw(World, 0))
    /\ UNCHANGED <<phase, aoColumns, rows>>

\* The application calls reset() on the text input filter i: the text is
\* cleared; a value set by script raises no 'input' event, so the filter
\* does not notify.
FilterReset(i) ==
    /\ phase \in {"constructed", "loaded", "ready"}
    /\ filters[i].type = "input"
    /\ filters' = [filters EXCEPT ![i] = InputFilter_reset(@)]
    /\ calls' = <<[NoCall EXCEPT !.op = "reset", !.col = filters[i].column,
                                 !.q = filters[i].value]>>
    /\ UNCHANGED <<phase, aoColumns, this_url, search, ajaxUrl, rows, header,
                   initBound, xhrBound, pending, reloads>>

Next ==
    \/ Construct
    \/ FirstLoad
    \/ GridInit
    \/ \E i \in DOMAIN filters : \E v \in UserValues(filters[i]) :
           ClientFilterChange(i, v)
    \/ \E i \in DOMAIN filters : \E v \in UserValues(filters[i]) :
           ServerFilterChange(i, v)
    \/ GridReload
    \/ Xhr
    \/ Draw

Spec == Init /\ [][Next]_vars

\* The same events over the configurations with a faulting filter.
SpecFaulty == InitFaulty /\ [][Next]_vars

\* The same events over the configurations with an option 'column'.
SpecOverride == InitOverride /\ [][Next]_vars

\* The events of Next and the resets of the application.
NextReset ==
    \/ Next
    \/ \E i \in DOMAIN filters : FilterReset(i)

\* The text input filters driven by the user, the grid and the application.
SpecReset == InitReset /\ [][NextReset]_vars

----------------------------------------------------------------------------
(* Reading the log of the latest handler *)

\* The calls made at depth d, in order.
CallsAt(d) == SelectSeq(calls, LAMBDA c : c.depth = d)

\* The calls with operation op, in order.
CallsOf(op) == SelectSeq(calls, LAMBDA c : c.op = op)

\* The latest handler is the change handling of a filter.
AfterChange == calls /= <<>> /\ calls[1].op = "change"

\* The filter that notified the change.
Changed == CHOOSE f \in {filters[k] : k \in DOMAIN filters} :
               f.column = calls[1].col

\* The columns of the collection.
FilterColumns == {filters[k].column : k \in DOMAIN filters}

\* The refresh() calls of the change handler's own cascade.
CascadeRefreshes ==
    SelectSeq(calls, LAMBDA c : c.op = "refresh" /\ c.depth = 0)

----------------------------------------------------------------------------
(* C1 *)

\* C1: cascade exclusion rule. When a client-side filter A reports a change
\* while it has a value, the cascade of onClientFilterChange calls
\* refresh() once on every filter whose column differs from A's and not on
\* A; when A has no value, it calls refresh() once on every filter, A
\* included. (Refreshes made by refreshFilters inside an intercepted redraw
\* are not part of the cascade.)
C1_CascadeExclusion ==
    (AfterChange /\ ~isServerSide(Changed)) =>
        LET r == CascadeRefreshes
            cols == {r[k].col : k \in DOMAIN r}
        IN  /\ Len(r) = Cardinality(cols)
            /\ cols = IF calls[1].regex
                      THEN FilterColumns \ {calls[1].col}
                      ELSE FilterColumns

\* A client-side filter with a value has changed and another filter has
\* been refreshed.
C1_Witness ==
    /\ AfterChange
    /\ ~isServerSide(Changed)
    /\ calls[1].regex
    /\ Len(CascadeRefreshes) >= 1

----------------------------------------------------------------------------
(* C2 *)

\* C2: routing correctness. The change handling of a server-side filter
\* makes no column search, no refresh and no redraw and makes a reload;
\* the change handling of a client-side filter never writes the URL and
\* never reloads.
C2_Routing ==
    AfterChange =>
        IF isServerSide(Changed)
        THEN /\ CallsOf("search") = <<>>
             /\ CallsOf("refresh") = <<>>
             /\ CallsOf("draw") = <<>>
             /\ Len(CallsOf("reload")) >= 1
             /\ reloads >= 1
        ELSE /\ CallsOf("url") = <<>>
             /\ CallsOf("reload") = <<>>

\* A collection mixing both kinds, after the change of a server-side
\* filter.
C2_Witness ==
    /\ AfterChange
    /\ isServerSide(Changed)
    /\ \E k \in DOMAIN filters : ~isServerSide(filters[k])
    /\ Len(CallsOf("reload")) = 1

----------------------------------------------------------------------------
(* C3 *)

RECURSIVE C3_Fragments(_, _)
\* The server queries of the server-side filters among fs[k..], each after
\* the first preceded by '&'; first tells whether none was emitted yet.
C3_Fragments(k, first) ==
    IF k > Len(filters) THEN NoText
    ELSE IF filters[k].serverSide
         THEN (IF first THEN NoText ELSE <<"&">>)
              \o <<ColDigit(filters[k].column), "=">> \o filters[k].value
              \o C3_Fragments(k + 1, FALSE)
         ELSE C3_Fragments(k + 1, first)

\* C3: after a server-side filter change the fetch URL is the base URL
\* captured at construction, '?', and the server queries of the
\* server-side filters in collection order joined with '&'; the captured
\* base is never modified, and the change makes exactly one reload.
C3_ServerUrl ==
    /\ phase \in {"constructed", "loaded", "ready"} => this_url = BaseUrl
    /\ (AfterChange /\ isServerSide(Changed)) =>
           /\ ajaxUrl = BaseUrl \o <<"?">> \o C3_Fragments(1, TRUE)
           /\ Len(CallsOf("reload")) = 1
           /\ Len(CallsOf("url")) = 1

\* A server-side filter changed in a collection with two server-side
\* filters, one with a value and one without; the URL holds both fragments.
C3_Witness ==
    /\ AfterChange
    /\ isServerSide(Changed)
    /\ Cardinality({k \in DOMAIN filters : filters[k].serverSide}) = 2
    /\ \E k \in DOMAIN filters : filters[k].serverSide /\ filters[k].value /= NoText
    /\ \E k \in DOMAIN filters : filters[k].serverSide /\ filters[k].value = NoText
    /\ Len(ajaxUrl) > Len(BaseUrl) + 6

----------------------------------------------------------------------------
(* C4 *)

\* The refresh() calls made by runs of refreshFilters, which run inside a
\* redraw (depth 1 and deeper).
RefreshAllRefreshes ==
    SelectSeq(calls, LAMBDA c : c.op = "refresh" /\ c.depth >= 1)

\* C4: refreshFilters passes to each filter's refresh() the filtered
\* distinct values of the filter's column: the values of the rows that pass
\* the searches applied to the grid when the values are read.
C4_RefreshAllFiltered ==
    \A k \in DOMAIN RefreshAllRefreshes :
        LET c == RefreshAllRefreshes[k]
        IN  c.data = getFilteredColumnData(rows, c.srch, c.col)

----------------------------------------------------------------------------
(* C5 *)

\* The collection is in declaration order: by increasing column index.
C5_DeclarationOrder ==
    \A i, j \in DOMAIN filters :
        i < j => filters[i].column < filters[j].column

\* s is: refresh and search of the filters at positions idx, in that
\* order, each refresh followed by the search of the same column, and then
\* one draw.
C5_IsCascade(s, idx) ==
    /\ Len(s) = 2 * Len(idx) + 1
    /\ \A j \in DOMAIN idx :
           /\ s[2 * j - 1].op = "refresh"
           /\ s[2 * j - 1].col = filters[idx[j]].column
           /\ s[2 * j].op = "search"
           /\ s[2 * j].col = filters[idx[j]].column
    /\ s[Len(s)].op = "draw"

\* The positions of the filters a client change refreshes: all of them,
\* or all but the changed one, in collection order.
C5_Refreshed ==
    SelectSeq(Indices(filters),
              LAMBDA k : ~calls[1].regex \/ filters[k].column /= calls[1].col)

\* C5: in refreshFilters and in the cascade of a client-side change the
\* filters are processed in collection order, which is declaration order:
\* refresh() and the search of filter i come before refresh() of every
\* later filter, each refresh() before the search of the same filter, and
\* the redraw comes once, after the last search.
C5_CollectionOrder ==
    /\ C5_DeclarationOrder
    /\ (AfterChange /\ ~isServerSide(Changed)) =>
           LET s == CallsAt(0)
           IN  /\ Len(s) >= 2
               /\ s[2].op = "search"
               /\ s[2].col = calls[1].col
               /\ C5_IsCascade(SubSeq(s, 3, Len(s)), C5_Refreshed)
    /\ LET s == CallsAt(1)
           n == 2 * Len(filters) + 2
       IN  /\ Len(s) % n = 0
           /\ \A r \in 0..((Len(s) \div n) - 1) :
                  /\ s[r * n + 1].op = "refreshFilters"
                  /\ C5_IsCascade(SubSeq(s, r * n + 2, (r + 1) * n),
                                  Indices(filters))

\* refreshFilters has run over three filters, and a client-side change has
\* refreshed two.
C5_Witness ==
    /\ Len(filters) = 3
    /\ AfterChange
    /\ ~isServerSide(Changed)
    /\ Len(CascadeRefreshes) = 2
    /\ Len(RefreshAllRefreshes) = 3

----------------------------------------------------------------------------
(* C6 *)

\* refreshFilters was the last operation to run.
AfterRefreshAll == CallsOf("refreshFilters") /= <<>>

\* C6: refreshFilters is idempotent. Run again on the state a run of it
\* left, with no value change and no data change in between, it leaves
\* every filter (its option list and its value) and every column's search
\* as they were.
C6_RefreshAllIdempotent ==
    AfterRefreshAll =>
        LET again == refreshFilters(World, 1)
        IN  /\ again.filters = filters
            /\ again.search = search

\* refreshFilters has run with a dropdown whose list it filled and whose
\* selected value it kept, while another column's search hides rows.
C6_Witness ==
    /\ AfterRefreshAll
    /\ \E k \in DOMAIN filters :
           /\ filters[k].type = "select"
           /\ filters[k].value /= NoText
           /\ Len(filters[k].options) >= 2
    /\ \E k \in DOMAIN filters :
           /\ filters[k].type = "input"
           /\ filters[k].value /= NoText

----------------------------------------------------------------------------
(* C7 *)

\* The search the constructor must have left on the column of filter f.
C7_InitialSearch(f) ==
    [q |-> IF f.type = "select" THEN f.initial ELSE NoText,
     regex |-> f.type = "input", smart |-> FALSE]

\* C7: the constructor, given a non-empty collection, calls init() on
\* every filter, then applies the initial query of every filter to its
\* column in collection order, then subscribes to 'init'; this is over
\* before the grid's first fetch, so from the end of construction to the
\* first fetch and render the search of every filtered column is the
\* filter's initial query.
C7_InitialQueriesFirst ==
    /\ (phase = "constructed" /\ filters /= <<>>) =>
           LET n == Len(filters)
           IN  /\ rows = <<>>
               /\ Len(calls) = 2 * n + 1
               /\ \A j \in 1..n :
                      /\ calls[j].op = "init"
                      /\ calls[j].col = filters[j].column
                      /\ calls[n + j].op = "search"
                      /\ calls[n + j].col = filters[j].column
                      /\ calls[n + j].q = C7_InitialSearch(filters[j]).q
               /\ calls[2 * n + 1].op = "on"
               /\ calls[2 * n + 1].ev = "init"
               /\ initBound = 1
    /\ phase \in {"constructed", "loaded"} =>
           \A k \in DOMAIN filters :
               /\ filters[k].initialized
               /\ search[filters[k].column] = C7_InitialSearch(filters[k])

\* The first fetch is done and a filter with a non-empty initial query was
\* constructed.
C7_Witness ==
    /\ phase = "loaded"
    /\ rows /= <<>>
    /\ \E k \in DOMAIN filters : filters[k].initial /= NoText
    /\ Len(filters) >= 2

----------------------------------------------------------------------------
(* C8 *)

\* Number of runs of refreshFilters in a log.
RefreshRuns(cs) == Len(SelectSeq(cs, LAMBDA c : c.op = "refreshFilters"))

\* A step in which the grid redraws once: a redraw of the grid's own, or
\* the redraw that ends a client-side change.
RedrawStep ==
    \/ Draw
    \/ \E i \in DOMAIN filters : \E v \in UserValues(filters[i]) :
           ClientFilterChange(i, v)

\* C8: one redraw is intercepted per completed fetch. A redraw runs
\* refreshFilters exactly once when a fetch has completed since the last
\* interception, however many fetches have, and not at all otherwise.
C8_OneRefreshPerRedraw ==
    [][RedrawStep =>
           RefreshRuns(calls') = IF pending > 0 THEN 1 ELSE 0]_vars

----------------------------------------------------------------------------
(* C9 *)

\* No column declares a filter descriptor.
NoFilterDeclared == \A k \in DOMAIN aoColumns : aoColumns[k].filter = <<>>

\* C9: when no column declares a filter, the constructor subscribes to no
\* event, applies no search and touches no element, and so after every
\* later grid event there is no header row, no rendered filter, no search,
\* no URL written, and the coordinator has made no call at all.
C9_NoFilterNoEffect ==
    (NoFilterDeclared /\ phase /= "declared") =>
        /\ filters = <<>>
        /\ initBound = 0
        /\ xhrBound = 0
        /\ pending = 0
        /\ header = <<>>
        /\ \A c \in DOMAIN search : search[c] = NoSearch
        /\ ajaxUrl = BaseUrl
        /\ calls = <<>>

\* Without any filter, the grid is initialized, has fetched again and
\* waits for another fetch.
C9_Witness ==
    /\ NoFilterDeclared
    /\ phase = "ready"
    /\ rows /= <<>>
    /\ reloads = 1

----------------------------------------------------------------------------
(* C10 *)

\* The latest handler is onDataTableInit.
AfterInit == calls /= <<>> /\ calls[1].op = "headerRow"

\* Number of visible columns.
VisibleColumns ==
    Cardinality({k \in DOMAIN aoColumns : aoColumns[k].bVisible})

\* C10: no header row is inserted and no filter is rendered or registered
\* before the grid's initialization event; the handler of that event
\* inserts a header row of one cell per visible column, then subscribes to
\* 'xhr', then renders every filter in collection order, registering the
\* change callback of each filter before calling its render().
C10_RenderAfterInit ==
    /\ phase /= "ready" =>
           /\ header = <<>>
           /\ xhrBound = 0
           /\ \A k \in DOMAIN filters :
                  ~filters[k].rendered /\ filters[k].sink = "none"
    /\ AfterInit =>
           LET n == Len(filters)
               s == SelectSeq(calls, LAMBDA c : c.op /= "addClass")
           IN  /\ phase = "ready"
               /\ calls[1].col = VisibleColumns
               /\ Len(header) = 1
               /\ Len(header[1]) = VisibleColumns
               /\ Len(s) = 2 * n + 2
               /\ s[2].op = "on"
               /\ s[2].ev = "xhr"
               /\ xhrBound = 1
               /\ \A j \in 1..n :
                      /\ s[2 * j + 1].op = "register"
                      /\ s[2 * j + 1].col = filters[j].column
                      /\ s[2 * j + 2].op = "render"
                      /\ s[2 * j + 2].col = filters[j].column
                      /\ filters[j].rendered
                      /\ filters[j].sink /= "none"

\* The initialization event was handled with three filters and a hidden
\* column.
C10_Witness ==
    /\ AfterInit
    /\ Len(filters) = 3
    /\ VisibleColumns < Len(aoColumns)

----------------------------------------------------------------------------
(* C11 *)

\* Some column's descriptor names a type that is not registered.
UnknownTypeDeclared ==
    \E k \in DOMAIN aoColumns :
        /\ aoColumns[k].filter /= <<>>
        /\ aoColumns[k].filter[1].type \notin {"input", "select"}

\* C11: a descriptor naming an unregistered filter type makes construction
\* fail, and then no filter was initialized, no search was applied and no
\* grid event was subscribed to, wherever the faulty column stands.
C11_UnknownTypeFails ==
    (UnknownTypeDeclared /\ phase /= "declared") =>
        /\ phase = "failed"
        /\ filters = <<>>
        /\ calls = <<>>
        /\ initBound = 0
        /\ xhrBound = 0
        /\ \A c \in DOMAIN search : search[c] = NoSearch

\* Construction failed on a column declared after a column with a
\* registered filter.
C11_Witness ==
    /\ phase = "failed"
    /\ aoColumns[1].filter /= <<>>
    /\ aoColumns[1].filter[1].type = "input"

----------------------------------------------------------------------------
(* C12 *)

\* C12: onClientFilterChange writes the changed filter's new predicate to
\* the grid first; every refresh() of its cascade gets values read while
\* that predicate is the search of the changed column, so every value
\* handed over comes from a row the new predicate accepts; the handler
\* makes exactly one redraw of its own, as its last call, also when it
\* refreshes no filter.
C12_ApplyBeforeCascade ==
    (AfterChange /\ ~isServerSide(Changed)) =>
        LET s == CallsAt(0)
            r == CascadeRefreshes
            a == calls[1].col
        IN  /\ Len(s) >= 3
            /\ s[2].op = "search"
            /\ s[2].col = a
            /\ s[2].q = calls[1].q
            /\ \A k \in DOMAIN r :
                   /\ r[k].srch[a].q = calls[1].q
                   /\ \A j \in DOMAIN r[k].data :
                          \E n \in DOMAIN rows :
                              /\ rows[n][r[k].col + 1] = r[k].data[j]
                              /\ Contains(calls[1].q, rows[n][a + 1])
            /\ s[Len(s)].op = "draw"
            /\ Len(SelectSeq(s, LAMBDA c : c.op = "draw")) = 1

\* A client-side filter changed to a value that hides rows, and the
\* cascade handed another filter fewer values than its column holds.
C12_Witness ==
    /\ AfterChange
    /\ ~isServerSide(Changed)
    /\ calls[1].regex
    /\ \E k \in DOMAIN CascadeRefreshes :
           Len(CascadeRefreshes[k].data)
               < Len(getColumnData(rows, CascadeRefreshes[k].col))

----------------------------------------------------------------------------
(* C13 *)

\* The searches srch without the one of column col.
C13_Without(srch, col) == [srch EXCEPT ![col] = NoSearch]

\* The cells of column col in the rows that pass the searches srch.
C13_PassingCells(srch, col) ==
    {rows[n][col + 1] : n \in {m \in DOMAIN rows : RowPasses(rows[m], srch)}}

\* data lists the set cells without duplicates.
C13_Lists(data, cells) ==
    /\ {data[j] : j \in DOMAIN data} = cells
    /\ \A i, j \in DOMAIN data : data[i] = data[j] => i = j

----------------------------------------------------------------------------
(* C14 *)

\* The register() calls of the latest handler on the filter of column c.
C14_Registers(c) ==
    SelectSeq(calls, LAMBDA x : x.op = "register" /\ x.col = c)

\* What holds in every state: register() is called by the handler of the
\* initialization event only, once per filter and with the sink chosen by
\* isServerSide(); one header row exists from then on.
C14_Once ==
    /\ CallsOf("register") /= <<>> => AfterInit
    /\ AfterInit =>
           \A k \in DOMAIN filters :
               LET r == C14_Registers(filters[k].column)
               IN  /\ Len(r) = 1
                   /\ r[1].ev = filters[k].sink
    /\ (phase = "ready" /\ filters /= <<>>) =>
           /\ Len(header) = 1
           /\ \A k \in DOMAIN filters :
                  filters[k].sink = IF isServerSide(filters[k])
                                    THEN "server" ELSE "client"
    /\ phase /= "ready" =>
           /\ header = <<>>
           /\ \A k \in DOMAIN filters : filters[k].sink = "none"

\* What holds of every step once the filters are rendered: the sinks and
\* the header rows stay as they are.
C14_Kept ==
    phase = "ready" =>
        /\ Len(header') = Len(header)
        /\ Len(filters') = Len(filters)
        /\ \A k \in DOMAIN filters : filters'[k].sink = filters[k].sink

\* C14: over any sequence of grid events after construction, register() is
\* called exactly once on each filter and exactly one filter header row is
\* inserted; the sink is the server handler if isServerSide() is true when
\* the filter is rendered and the client handler otherwise, and it is
\* never changed afterwards.
C14_SinkInstalledOnce == [](C14_Once) /\ [][C14_Kept]_vars

\* Server-side and client-side filters were rendered, and since then a
\* fetch has completed and refreshFilters has run.
C14_Witness ==
    /\ phase = "ready"
    /\ AfterRefreshAll
    /\ \E k \in DOMAIN filters : filters[k].sink = "server"
    /\ \E k \in DOMAIN filters : filters[k].sink = "client"

----------------------------------------------------------------------------
(* C15 *)

\* The latest handler was left by an exception.
C15_Thrown == calls /= <<>> /\ calls[Len(calls)].op = "throw"

\* The filter of column c.
C15_FilterOf(c) ==
    CHOOSE f \in {filters[k] : k \in DOMAIN filters} : f.column = c

\* The search calls of the latest handler on column c.
C15_Searches(c) ==
    SelectSeq(calls, LAMBDA x : x.op = "search" /\ x.col = c)

\* C15: a refresh() that fails during a cascade (of onClientFilterChange
\* or of refreshFilters) ends the handling of the event: the failed call is
\* the last call made, so no later filter is refreshed or reapplied, the
\* faulting filter's predicate is not reapplied and no redraw follows, in
\* the cascade and in the handlers around it; the predicates written
\* before the failure stay applied.
C15_FaultAborts ==
    /\ \A k \in DOMAIN calls :
           calls[k].op = "throw" =>
               /\ k = Len(calls)
               /\ k > 1
               /\ calls[k - 1].op = "refresh"
               /\ calls[k - 1].col = calls[k].col
               /\ calls[k - 1].depth = calls[k].depth
    /\ \A k \in DOMAIN calls :
           (calls[k].op = "refresh" /\ C15_FilterOf(calls[k].col).faulty) =>
               /\ k + 1 = Len(calls)
               /\ calls[k + 1].op = "throw"
    /\ \A c \in DOMAIN search :
           LET s == C15_Searches(c)
           IN  s /= <<>> =>
                   /\ search[c].q = s[Len(s)].q
                   /\ search[c].regex = s[Len(s)].regex

\* The cascade of a client-side change refreshed and reapplied a filter,
\* then failed on the next one, with one more filter left in the
\* collection.
C15_Witness ==
    /\ C15_Thrown
    /\ AfterChange
    /\ calls[Len(calls)].depth = 0
    /\ Len(CascadeRefreshes) = 2
    /\ Len(CallsAt(0)) = 6
    /\ Len(filters) = 3
    /\ ~filters[3].faulty
    /\ \E c \in DOMAIN search : search[c].q /= NoText

----------------------------------------------------------------------------
(* C16 *)

\* The construction is over and has not failed.
C16_Constructed == phase \in {"constructed", "loaded", "ready"}

\* The column values of the collection are pairwise distinct.
C16_Distinct ==
    C16_Constructed =>
        \A i, j \in DOMAIN filters :
            filters[i].column = filters[j].column => i = j

\* A step after construction leaves the members of the collection and
\* their order as they are.
C16_Kept ==
    C16_Constructed =>
        /\ Len(filters') = Len(filters)
        /\ \A k \in DOMAIN filters :
               /\ filters'[k].column = filters[k].column
               /\ filters'[k].renderColumn = filters[k].renderColumn
               /\ filters'[k].type = filters[k].type

\* C16: in every state reachable after construction the column values of
\* the filters of the collection are pairwise distinct, and no client
\* change, server change, refreshFilters or grid event adds, removes or
\* reorders a filter.
C16_CollectionFixed == [](C16_Distinct) /\ [][C16_Kept]_vars

----------------------------------------------------------------------------
(* C17 *)

\* Number of visible columns with an index lower than c.
C17_VisibleBefore(c) ==
    Cardinality({k \in 0..(c - 1) : aoColumns[k + 1].bVisible})

\* C17: the renderColumn of the filter of column c is the number of
\* visible columns with an index lower than c; two filters never have the
\* same renderColumn, every renderColumn is lower than the number of cells
\* of the inserted header row, and each filter is rendered into the header
\* cell of its own column.
C17_RenderColumn ==
    /\ C16_Constructed =>
           /\ \A k \in DOMAIN filters :
                  /\ filters[k].renderColumn
                         = C17_VisibleBefore(filters[k].column)
                  /\ filters[k].renderColumn < VisibleColumns
           /\ \A i, j \in DOMAIN filters :
                  filters[i].renderColumn = filters[j].renderColumn => i = j
    /\ phase = "ready" =>
           \A k \in DOMAIN filters :
               /\ aoColumns[filters[k].column + 1].bVisible
               /\ filters[k].container = C17_VisibleBefore(filters[k].column)
               /\ header[1][filters[k].container + 1] = <<filters[k].column>>

----------------------------------------------------------------------------
(* C18 *)

\* The text input filters of the collection.
C18_Inputs == {filters[k] : k \in {j \in DOMAIN filters : filters[j].type = "input"}}

\* What holds of a text input filter f in every state.
C18_Algebra(f) ==
    /\ InputFilter_hasValue(f) <=> (f.value /= <<>>)
    /\ ~InputFilter_hasValue(InputFilter_reset(f))
    /\ InputFilter_reset(InputFilter_reset(f)) = InputFilter_reset(f)
    /\ \A c \in DOMAIN search :
           /\ InputFilter_populate(f, getColumnData(rows, c)).value = f.value
           /\ InputFilter_update(f, getFilteredColumnData(rows, search, c)).value
                  = f.value

\* What holds of every step: the text of a text input filter changes only
\* in a step in which that filter is given a text by the user or is reset;
\* after a reset the filter has no value, and refresh() and render() of
\* the handlers in between leave the text alone.
C18_Step ==
    \A k \in DOMAIN filters :
        (filters[k].type = "input" /\ k \in DOMAIN filters') =>
            \/ filters'[k].value = filters[k].value
            \/ /\ calls'[1].op = "change"
               /\ calls'[1].col = filters[k].column
               /\ filters'[k].value = calls'[1].q
            \/ /\ calls'[1].op = "reset"
               /\ calls'[1].col = filters[k].column
               /\ ~InputFilter_hasValue(filters'[k])

\* C18: for the text input filter, hasValue() is true exactly when the
\* text of the control is not empty; after reset() hasValue() is false
\* whatever the text was; reset() is idempotent; populate() and update()
\* leave the text entered by the user unchanged.
C18_InputFilterValue ==
    [](\A f \in C18_Inputs : C18_Algebra(f)) /\ [][C18_Step]_vars

\* After the first fetch a text input filter that held a text was reset,
\* while another text input filter holds a text.
C18_Witness ==
    /\ calls /= <<>>
    /\ calls[1].op = "reset"
    /\ calls[1].q /= NoText
    /\ \E f \in C18_Inputs : f.column = calls[1].col /\ ~InputFilter_hasValue(f)
    /\ \E f \in C18_Inputs : InputFilter_hasValue(f)
    /\ rows /= <<>>

----------------------------------------------------------------------------
(* C19 *)

\* The search of the column of filter f is the filter's current query with
\* the filter's regex flag.
C19_InStep(f) ==
    /\ search[f.column].q = getQuery(f)
    /\ search[f.column].regex = isRegexMatch(f)
    /\ search[f.column].smart = FALSE

\* C19: at the end of every onClientFilterChange and of every
\* refreshFilters the predicate and the regex flag applied to the column
\* of every filter, client-side or server-side, are the filter's current
\* query and isRegexMatch().
C19_SearchFollowsValue ==
    ((AfterChange /\ ~isServerSide(Changed)) \/ AfterRefreshAll) =>
        \A k \in DOMAIN filters : C19_InStep(filters[k])

\* refreshFilters has run after a fetch, and the predicate of a
\* server-side filter with a value and that of a text input filter with a
\* value are applied.
C19_Witness ==
    /\ AfterRefreshAll
    /\ \E k \in DOMAIN filters :
           /\ isServerSide(filters[k])
           /\ hasValue(filters[k])
           /\ C19_InStep(filters[k])
    /\ \E k \in DOMAIN filters :
           /\ filters[k].type = "input"
           /\ ~isServerSide(filters[k])
           /\ hasValue(filters[k])

----------------------------------------------------------------------------
(* C20 *)

\* A step that handles the change of a client-side filter: the handler
\* of a change that does not reload.
C20_ClientChangeStep ==
    /\ calls' /= <<>>
    /\ calls'[1].op = "change"
    /\ \A k \in DOMAIN calls' : calls'[k].op /= "reload"

\* A step in which the grid redraws while interceptions wait, or the
\* coordinator redraws.
C20_RedrawStep ==
    \/ C20_ClientChangeStep
    \/ pending' < pending
    \/ RefreshRuns(calls') > 0

\* In the log cs no run of refreshFilters is nested in the redraw of
\* another run, and every run is followed by its own redraw.
C20_NotNested(cs) ==
    /\ \A k \in DOMAIN cs : cs[k].op = "refreshFilters" => cs[k].depth = 1
    /\ \A k \in DOMAIN cs : cs[k].depth <= 1
    /\ Len(SelectSeq(cs, LAMBDA c : c.op = "draw" /\ c.depth = 1))
           = RefreshRuns(cs)

\* C20 (as stated): the redraw issued by refreshFilters runs no
\* refreshFilters, the interception being consumed before refreshFilters
\* runs and armed by a fetch completion only; so the handling of a fetch
\* completion ends after a bounded number of redraws, and a client-side
\* filter change never leads to a run of refreshFilters.
C20_ClientChangeNeverRefreshesAll ==
    [][/\ C20_RedrawStep => (C20_NotNested(calls') /\ pending' = 0)
       /\ pending' > pending => (Len(calls') = 1 /\ calls'[1].op = "one")
       /\ C20_ClientChangeStep => RefreshRuns(calls') = 0]_vars

\* C20 (amended): the redraw issued by refreshFilters runs no
\* refreshFilters, the interceptions being removed before the first of
\* them runs and armed by a fetch completion only; a redraw runs
\* refreshFilters once per fetch completion since the previous redraw and
\* ends after as many nested redraws; a client-side filter change arms no
\* interception, and its redraw runs refreshFilters if and only if a
\* fetch completion still waits for its redraw.
C20_NestedRedrawRefreshesNothing ==
    [][/\ C20_RedrawStep =>
              /\ C20_NotNested(calls')
              /\ pending' = 0
              /\ RefreshRuns(calls') = pending
       /\ pending' > pending => (Len(calls') = 1 /\ calls'[1].op = "one")
       /\ C20_ClientChangeStep =>
              /\ \A k \in DOMAIN calls' : calls'[k].op /= "one"
              /\ (RefreshRuns(calls') > 0 <=> pending > 0)]_vars

\* A client-side filter changed while a fetch completion waited for its
\* redraw: the redraw of the change ran refreshFilters, whose own redraw
\* followed.
C20_Witness ==
    /\ AfterChange
    /\ ~isServerSide(Changed)
    /\ RefreshRuns(calls) = 1
    /\ pending = 0
    /\ Len(CallsOf("draw")) = 2

====
